---- MODULE Spec2Model ----
(***************************************************************************)
(* Model of the WinSparkle update checker (CovenantEyes fork):             *)
(*   - the version comparator (UpdateChecker::CompareVersions),            *)
(*   - one update-check session (UpdateChecker::PerformUpdateCheck),       *)
(*   - the schedulers that run sessions (PeriodicUpdateChecker::Run,       *)
(*     OneShotUpdateChecker::Run, ManualUpdateChecker),                    *)
(*   - the download sink the silent-install path streams into.             *)
(* A version string is a sequence of one-character strings.                *)
(***************************************************************************)
EXTENDS Integers, Sequences, FiniteSets, TLC

(***************************************************************************)
(* Bounds of the model.                                                    *)
(***************************************************************************)
\* The clock runs from 1 to MaxTime, in units of one polling quantum.
MaxTime == 3
\* A download delivers at most MaxChunks chunks to the sink.
MaxChunks == 2
\* At most MaxDirs temp directories are created in one run of the model.
MaxDirs == 2

(***************************************************************************)
(* Version comparison.                                                     *)
(***************************************************************************)
Digits == {"0", "1", "2", "3", "4", "5", "6", "7", "8", "9"}

\* Byte value of a character of the modelled alphabet (ASCII).
CharCode(c) ==
    CASE c = "." -> 46
      [] c = "0" -> 48 [] c = "1" -> 49 [] c = "2" -> 50 [] c = "3" -> 51
      [] c = "4" -> 52 [] c = "5" -> 53 [] c = "6" -> 54 [] c = "7" -> 55
      [] c = "8" -> 56 [] c = "9" -> 57
      [] c = "a" -> 97 [] c = "b" -> 98 [] c = "c" -> 99 [] c = "r" -> 114
      [] OTHER -> 122

ClassifyChar(c) ==
    IF c = "." THEN "Type_Period"
    ELSE IF c \in Digits THEN "Type_Number"
    ELSE "Type_String"

\* The loop of SplitVersionString from index i on: s is the current segment,
\* list the segments finished so far.
RECURSIVE SplitLoop(_, _, _, _)
SplitLoop(version, i, s, list) ==
    IF i > Len(version) THEN Append(list, s)
    ELSE LET c == version[i]
             prevType == ClassifyChar(version[i - 1])
             newType == ClassifyChar(c)
         IN  IF prevType /= newType \/ prevType = "Type_Period"
             THEN SplitLoop(version, i + 1, <<c>>, Append(list, s))
             ELSE SplitLoop(version, i + 1, Append(s, c), list)

SplitVersionString(version) ==
    IF version = <<>> THEN <<>>
    ELSE SplitLoop(version, 2, <<version[1]>>, <<>>)

\* Largest value of the C int that atoi returns.
INT_MAX == 2147483647

\* What atoi does in this build with a value that does not fit in an int,
\* which the C standard leaves undefined: "saturate" (the Universal C
\* runtime returns INT_MAX) or "wrap" (msvcrt.dll keeps the low 32 bits).
VARIABLE overflow

\* atoi of a run of digits: the decimal value, held at INT_MAX where the
\* value does not fit in an int.
RECURSIVE AtoiLoop(_, _, _)
AtoiLoop(s, i, acc) ==
    IF i > Len(s) THEN acc
    ELSE LET d == CharCode(s[i]) - 48
         IN  IF acc > (INT_MAX - d) \div 10 THEN INT_MAX
             ELSE AtoiLoop(s, i + 1, acc * 10 + d)

\* Half of the 32 bits of an int, as a factor.
HalfWord == 65536

\* atoi of a run of digits with the multiplications wrapping at 32 bits:
\* hi and lo are the two 16-bit halves of the accumulator, and the result
\* is the accumulator read as a signed int.
RECURSIVE AtoiWrapLoop(_, _, _, _)
AtoiWrapLoop(s, i, hi, lo) ==
    IF i > Len(s)
    THEN IF hi >= HalfWord \div 2 THEN (hi - HalfWord) * HalfWord + lo
         ELSE hi * HalfWord + lo
    ELSE LET l == lo * 10 + (CharCode(s[i]) - 48)
             h == hi * 10 + l \div HalfWord
         IN  AtoiWrapLoop(s, i + 1, h % HalfWord, l % HalfWord)

Atoi(s) ==
    IF overflow = "wrap" THEN AtoiWrapLoop(s, 1, 0, 0) ELSE AtoiLoop(s, 1, 0)

\* std::string::compare: the sign of the first differing byte, then of the
\* difference of the lengths.
RECURSIVE StringCompareLoop(_, _, _)
StringCompareLoop(a, b, i) ==
    IF i > Len(a) /\ i > Len(b) THEN 0
    ELSE IF i > Len(a) THEN -1
    ELSE IF i > Len(b) THEN 1
    ELSE IF CharCode(a[i]) < CharCode(b[i]) THEN -1
    ELSE IF CharCode(a[i]) > CharCode(b[i]) THEN 1
    ELSE StringCompareLoop(a, b, i + 1)

StringCompare(a, b) == StringCompareLoop(a, b, 1)

\* The pairwise walk of CompareVersions over the common length n, from
\* index i on; 2 stands for "no pair decided".
RECURSIVE ComparePairs(_, _, _, _)
ComparePairs(partsA, partsB, i, n) ==
    IF i > n THEN 2
    ELSE LET a == partsA[i]
             b == partsB[i]
             typeA == ClassifyChar(a[1])
             typeB == ClassifyChar(b[1])
             rest == ComparePairs(partsA, partsB, i + 1, n)
         IN  IF typeA = typeB
             THEN IF typeA = "Type_String"
                  THEN IF StringCompare(a, b) /= 0 THEN StringCompare(a, b)
                       ELSE rest
                  ELSE IF typeA = "Type_Number"
                  THEN IF Atoi(a) > Atoi(b) THEN 1
                       ELSE IF Atoi(a) < Atoi(b) THEN -1
                       ELSE rest
                  ELSE rest
             ELSE IF typeA /= "Type_String" /\ typeB = "Type_String" THEN 1
             ELSE IF typeA = "Type_String" /\ typeB /= "Type_String" THEN -1
             ELSE IF typeA = "Type_Number" THEN 1 ELSE -1

\* CompareVersions with the result for a missing string part not turned
\* round when the first version is the longer one.
CompareVersions_TailOneSided(verA, verB) ==
    LET partsA == SplitVersionString(verA)
        partsB == SplitVersionString(verB)
        n == IF Len(partsA) < Len(partsB) THEN Len(partsA) ELSE Len(partsB)
        common == ComparePairs(partsA, partsB, 1, n)
    IN  IF common /= 2 THEN common
        ELSE IF Len(partsA) = Len(partsB) THEN 0
        ELSE LET longer == IF Len(partsA) > Len(partsB) THEN partsA ELSE partsB
                 missingPartType == ClassifyChar(longer[n + 1][1])
                 shorterResult == 1
                 longerResult == IF Len(partsA) > Len(partsB) THEN 1 ELSE -1
             IN  IF missingPartType = "Type_String" THEN shorterResult
                 ELSE longerResult

CompareVersions(verA, verB) ==
    LET partsA == SplitVersionString(verA)
        partsB == SplitVersionString(verB)
        n == IF Len(partsA) < Len(partsB) THEN Len(partsA) ELSE Len(partsB)
        common == ComparePairs(partsA, partsB, 1, n)
    IN  IF common /= 2 THEN common
        ELSE IF Len(partsA) = Len(partsB) THEN 0
        ELSE LET longer == IF Len(partsA) > Len(partsB) THEN partsA ELSE partsB
                 missingPartType == ClassifyChar(longer[n + 1][1])
                 shorterResult == IF Len(partsA) > Len(partsB) THEN -1 ELSE 1
                 longerResult == IF Len(partsA) > Len(partsB) THEN 1 ELSE -1
             IN  IF missingPartType = "Type_String" THEN shorterResult
                 ELSE longerResult

(***************************************************************************)
(* Inputs of a session.                                                    *)
(***************************************************************************)
\* Version of the running application (Settings::GetAppBuildVersion).
AppBuildVersion == <<"1", ".", "1">>

\* Versions a feed can announce: a pre-release of the installed version, the
\* installed version, and two newer ones.
FeedVersions ==
    { <<"1", ".", "1", "b">>, <<"1", ".", "1">>, <<"1", ".", "2">> }

\* A URL is modelled by what CheckForInsecureURL looks at: empty, plain
\* HTTP, or HTTPS.
URLs == {"", "http", "https"}

Appcasts ==
    [ Version : FeedVersions,
      DownloadURL : URLs,
      ReleaseNotesURL : URLs,
      SilentInstall : BOOLEAN,
      Valid : BOOLEAN ]

\* A default-constructed Appcast: every string empty.
EmptyAppcast ==
    [ Version |-> <<>>, DownloadURL |-> "", ReleaseNotesURL |-> "",
      SilentInstall |-> FALSE, Valid |-> FALSE ]

\* What ApplicationController::AlternateAppcastCallback can return: 0 and 1
\* (the callback supplied the Appcast), WINSPARKLE_RETURN_ERROR (use the
\* default handling), anything else.
AltResults == {"0", "1", "WINSPARKLE_RETURN_ERROR", "unknown"}

\* The checker threads. OneShotUpdateChecker and ManualUpdateChecker share
\* OneShotUpdateChecker::Run; they differ in ShouldSkipUpdate.
Threads == {"Periodic", "OneShot", "Manual"}

\* Length of the scheduler's wait, Settings::MIN_CHECK_INTERVAL: the unit
\* of the model's clock.
Quantum == 1

\* Values of win_sparkle_get_update_check_interval(), in quanta.
Intervals == {1, 2}

\* Positions inside UpdateChecker::PerformUpdateCheck.
SessionPcs ==
    {"acquire", "record", "decide", "mkdir", "dlopen", "dladd", "verify",
     "launch"}

\* The failures a session can raise.
Errors ==
    {"ConfigurationError", "InsecureTransport", "NetworkError", "ParseError",
     "FilesystemError", "VerificationFailure", "Cancelled"}

\* The three notifications that report the end of a session.
TerminalNotifications ==
    {"NotifyNoUpdates", "NotifyUpdateAvailable", "NotifyUpdateError"}

VARIABLES
    now,        \* time(NULL), in quanta
    cfg,        \* the configuration store (Settings)
    dirs,       \* the temp directories that exist
    nextDir,    \* the next fresh directory of CreateUniqueTempDirectory
    started,    \* the checker threads that were started
    pc,         \* position of each thread
    manual,     \* the argument of the thread's PerformUpdateCheck call
    appcast,    \* the session's Appcast
    sink,       \* the session's UpdateDownloadSink
    terminate,  \* the thread's terminate event
    log,        \* the observable events of the thread's latest session
    result,     \* how the thread's latest session ended
    lctBefore,  \* LastCheckTime as the thread's latest session found it
    prevFailed, \* whether the session of the iteration before raised
    calls,      \* the calls a client made on a sink exercised on its own
    vers,       \* the version strings handed to the comparator on its own
    cmp         \* what the comparator returned for them

vars ==
    <<now, cfg, dirs, nextDir, started, pc, manual, appcast, sink, terminate,
      log, result, lctBefore, prevFailed, calls, vers, cmp, overflow>>

\* The variables that only the specifications of the sink and of the
\* comparator on their own change.
unit == <<calls, vers, cmp, overflow>>

\* No sink object exists. Besides the members of UpdateDownloadSink a sink
\* carries what the C runtime holds for it: the last reading of clock(), the
\* calls of _wfopen that succeeded (fopens) and of fclose (fcloses), and the
\* chunks that fwrite wrote to the file (written).
NoSink ==
    [ exists |-> FALSE, m_dir |-> 0, m_file |-> FALSE, m_path |-> "",
      m_downloaded |-> 0, m_total |-> 0, m_lastUpdate |-> -1, clock |-> 0,
      fopens |-> 0, fcloses |-> 0, written |-> 0 ]

(***************************************************************************)
(* UpdateDownloadSink.  An operation that can throw yields a record with   *)
(* the error raised ("" for none) and the sink as the operation leaves it. *)
(***************************************************************************)
\* clock() ticks per second.
CLOCKS_PER_SEC == 1000

\* Readings of clock() at which a chunk can arrive.
ClockReadings == {50, 99, 250}

\* What clock() returns when the processor time is not available.
ClockFailed == -1

SinkNew(dir) ==
    [ exists |-> TRUE, m_dir |-> dir, m_file |-> FALSE, m_path |-> "",
      m_downloaded |-> 0, m_total |-> 0, m_lastUpdate |-> -1, clock |-> 0,
      fopens |-> 0, fcloses |-> 0, written |-> 0 ]

\* SinkClose without the test of m_file: fclose is called every time.
SinkClose_Unguarded(s) ==
    [s EXCEPT !.m_file = FALSE, !.fcloses = s.fcloses + 1]

SinkClose(s) ==
    IF s.m_file
    THEN [s EXCEPT !.m_file = FALSE, !.fcloses = s.fcloses + 1]
    ELSE s

\* The destructor.
SinkDestroy(s) == [SinkClose(s) EXCEPT !.exists = FALSE]

SinkSetLength(s, l) == [s EXCEPT !.m_total = l]

\* canOpen: whether _wfopen succeeds.
SinkSetFilename(s, filename, canOpen) ==
    IF s.m_file THEN [err |-> "AlreadyBound", s |-> s]
    ELSE IF ~canOpen
    THEN [err |-> "FilesystemError", s |-> [s EXCEPT !.m_path = filename]]
    ELSE [err |-> "",
          s |-> [s EXCEPT !.m_path = filename, !.m_file = TRUE,
                          !.fopens = s.fopens + 1]]

\* ProgressDue without the clause for the completed download.
ProgressDue_ThrottleOnly(s, clk) ==
    \/ clk = ClockFailed
    \/ (clk - s.m_lastUpdate) * 10 >= CLOCKS_PER_SEC

\* The throttle of Add: whether a progress notification is due at clock
\* reading clk.
ProgressDue(s, clk) ==
    \/ clk = ClockFailed
    \/ s.m_downloaded = s.m_total
    \/ (clk - s.m_lastUpdate) * 10 >= CLOCKS_PER_SEC

\* SinkAdd with the termination check made after the write.
SinkAdd_CheckAfterWrite(s, len, shouldTerminate, writeOk, clk) ==
    IF ~s.m_file THEN [err |-> "NotBound", s |-> s, notified |-> FALSE]
    ELSE IF ~writeOk
    THEN [err |-> "FilesystemError", s |-> s, notified |-> FALSE]
    ELSE IF shouldTerminate
    THEN [err |-> "Cancelled", s |-> [s EXCEPT !.written = s.written + len],
          notified |-> FALSE]
    ELSE LET w == [s EXCEPT !.m_downloaded = s.m_downloaded + len,
                            !.written = s.written + len,
                            !.clock = IF clk = ClockFailed THEN s.clock
                                      ELSE clk]
         IN  IF ProgressDue(w, clk)
             THEN [err |-> "", s |-> [w EXCEPT !.m_lastUpdate = clk],
                   notified |-> TRUE]
             ELSE [err |-> "", s |-> w, notified |-> FALSE]

\* shouldTerminate: the owning thread's terminate event is signaled;
\* writeOk: whether fwrite writes the chunk; clk: the reading of clock().
SinkAdd(s, len, shouldTerminate, writeOk, clk) ==
    IF ~s.m_file THEN [err |-> "NotBound", s |-> s, notified |-> FALSE]
    ELSE IF shouldTerminate
    THEN [err |-> "Cancelled", s |-> s, notified |-> FALSE]
    ELSE IF ~writeOk
    THEN [err |-> "FilesystemError", s |-> s, notified |-> FALSE]
    ELSE LET w == [s EXCEPT !.m_downloaded = s.m_downloaded + len,
                            !.written = s.written + len,
                            !.clock = IF clk = ClockFailed THEN s.clock
                                      ELSE clk]
         IN  IF ProgressDue(w, clk)
             THEN [err |-> "", s |-> [w EXCEPT !.m_lastUpdate = clk],
                   notified |-> TRUE]
             ELSE [err |-> "", s |-> w, notified |-> FALSE]

(***************************************************************************)
(* Collaborators whose code is outside the modelled sources.               *)
(***************************************************************************)
\* CheckForInsecureURL: whether it throws for this URL.
CheckForInsecureURL(url) == url = "http"

\* Appcast::IsValid.
IsValid(a) == a.Valid

\* SignatureVerifier::VerifyDSASHA1SignatureValid returns nothing; it throws
\* when the signature does not match the file.
VerifyDSASHA1SignatureValid(signatureMatches) ==
    IF signatureMatches THEN "" ELSE "VerificationFailure"

\* Thread::CheckShouldTerminate throws when the terminate event is signaled.
CheckShouldTerminate(t) == terminate[t]

\* UpdateDownloader::CleanLeftovers: removes the directory that
\* UpdateTempDir names and deletes the value.
CleanLeftoversDirs(c, ds) ==
    IF c.UpdateTempDir = <<>> THEN ds ELSE ds \ {c.UpdateTempDir[1]}

CleanLeftoversCfg(c) == [c EXCEPT !.UpdateTempDir = <<>>]

(***************************************************************************)
(* Settings.                                                               *)
(***************************************************************************)
\* Settings::ReadConfigValue("CheckForUpdates", checkUpdates, false).
ReadCheckForUpdates(c) == c.CheckForUpdates = "true"

\* time_t lastCheck = 0; Settings::ReadConfigValue("LastCheckTime", lastCheck).
ReadLastCheckTime(c) ==
    IF c.LastCheckTime = <<>> THEN 0 ELSE c.LastCheckTime[1]

\* CheckDue with the comparison of the times made strict.
CheckDue_Late(c, currentTime) ==
    /\ ReadCheckForUpdates(c)
    /\ currentTime > ReadLastCheckTime(c) + c.Interval

\* The test of PeriodicUpdateChecker::Run for running a session now.
CheckDue(c, currentTime) ==
    /\ ReadCheckForUpdates(c)
    /\ currentTime >= ReadLastCheckTime(c) + c.Interval

\* UpdateChecker::ShouldSkipUpdate.
ShouldSkipUpdate(c, a) ==
    IF c.SkipThisVersion /= <<>> THEN c.SkipThisVersion[1] = a.Version
    ELSE FALSE

\* ManualShouldSkipUpdate without the override: the stored version decides.
ManualShouldSkipUpdate_Stored(c, a) ==
    c.SkipThisVersion /= <<>> /\ c.SkipThisVersion[1] = a.Version

\* ManualUpdateChecker::ShouldSkipUpdate.
ManualShouldSkipUpdate(c, a) == FALSE

\* The virtual call ShouldSkipUpdate(appcast) of thread t.
ShouldSkip(t, c, a) ==
    IF t = "Manual" THEN ManualShouldSkipUpdate(c, a)
    ELSE ShouldSkipUpdate(c, a)

\* UpToDate without the test of the Appcast's validity.
UpToDate_VersionOnly(a) == CompareVersions(AppBuildVersion, a.Version) >= 0

\* The version test of PerformUpdateCheck: nothing newer is offered.
UpToDate(a) ==
    ~IsValid(a) \/ CompareVersions(AppBuildVersion, a.Version) >= 0

(***************************************************************************)
(* The initial states: one checker thread has been created and started.    *)
(***************************************************************************)
Init ==
    /\ now = 1
    /\ \E t \in Threads : started = {t}
    /\ \E cu \in {"absent", "true", "false"}, iv \in Intervals,
          lct \in {<<>>, <<1>>}, skip \in {<<>>, << <<"1", ".", "2">> >>},
          url \in URLs, key \in BOOLEAN :
          /\ "Periodic" \notin started =>
                 cu = "absent" /\ iv = 1 /\ lct = <<>>
          /\ cfg = [ CheckForUpdates |-> cu, LastCheckTime |-> lct,
                     SkipThisVersion |-> skip, UpdateTempDir |-> <<>>,
                     AppcastURL |-> url, HasDSAPubKeyPem |-> key,
                     Interval |-> iv ]
    /\ dirs = {}
    /\ nextDir = 1
    /\ pc = [t \in Threads |-> IF t \in started THEN "start" ELSE "off"]
    /\ manual = [t \in Threads |-> FALSE]
    /\ appcast = [t \in Threads |-> EmptyAppcast]
    /\ sink = [t \in Threads |-> NoSink]
    /\ terminate = [t \in Threads |-> FALSE]
    /\ log = [t \in Threads |-> <<>>]
    /\ result = [t \in Threads |-> "none"]
    /\ lctBefore = [t \in Threads |-> <<>>]
    /\ prevFailed = [t \in Threads |-> FALSE]
    /\ calls = <<>>
    /\ vers = <<>>
    /\ cmp = <<>>
    /\ overflow = "saturate"

(***************************************************************************)
(* Entering and leaving UpdateChecker::PerformUpdateCheck.                 *)
(***************************************************************************)
\* PeriodicAfterSession without the try block: the failure ends Run.
PeriodicAfterSession_Propagate(raised) == IF raised THEN "failed" ELSE "wait"

\* Where PeriodicUpdateChecker::Run continues after its call of
\* PerformUpdateCheck: CATCH_ALL_EXCEPTIONS swallows whatever was raised.
PeriodicAfterSession(raised) == "wait"

\* OneShotAfterSession with the failure swallowed: Run ends normally.
OneShotAfterSession_Swallow(raised) == "done"

\* Where OneShotUpdateChecker::Run ends after its call of
\* PerformUpdateCheck: a failure leaves Run as an exception.
OneShotAfterSession(raised) == IF raised THEN "failed" ELSE "done"

AfterSession(t, raised) ==
    IF t = "Periodic" THEN PeriodicAfterSession(raised)
    ELSE OneShotAfterSession(raised)

\* CatchAll without the notification.
CatchAll_Silent(kind) == <<>>

\* What the catch (...) of PerformUpdateCheck does before it rethrows.
CatchAll(kind) == <<"NotifyUpdateError">>

BeginSession(t, m) ==
    /\ pc' = [pc EXCEPT ![t] = "acquire"]
    /\ manual' = [manual EXCEPT ![t] = m]
    /\ lctBefore' = [lctBefore EXCEPT ![t] = cfg.LastCheckTime]
    /\ UNCHANGED <<appcast, log, result, prevFailed>>

\* The session goes on at position next, after the events.
Continue(t, events, next) ==
    /\ pc' = [pc EXCEPT ![t] = next]
    /\ log' = [log EXCEPT ![t] = log[t] \o events]
    /\ UNCHANGED <<result, lctBefore, prevFailed, manual>>

\* PerformUpdateCheck returns, after the events; its locals are destroyed.
Return(t, events) ==
    /\ pc' = [pc EXCEPT ![t] = AfterSession(t, FALSE)]
    /\ log' = [log EXCEPT ![t] = log[t] \o events]
    /\ result' = [result EXCEPT ![t] = "returned"]
    /\ sink' = [sink EXCEPT ![t] = NoSink]
    /\ UNCHANGED <<lctBefore, prevFailed, manual>>

\* An exception of the given kind is raised after the events: the locals
\* are destroyed, the catch block runs, the exception leaves the session.
Raise(t, kind, events) ==
    /\ pc' = [pc EXCEPT ![t] = AfterSession(t, TRUE)]
    /\ log' = [log EXCEPT ![t] = log[t] \o events \o CatchAll(kind)]
    /\ result' = [result EXCEPT ![t] = kind]
    /\ sink' = [sink EXCEPT ![t] = NoSink]
    /\ UNCHANGED <<lctBefore, prevFailed, manual>>

(***************************************************************************)
(* The schedulers.                                                         *)
(***************************************************************************)
\* PeriodicUpdateChecker::Run up to its loop.
PeriodicStart ==
    /\ pc["Periodic"] = "start"
    /\ pc' = [pc EXCEPT !["Periodic"] = "loop"]
    /\ UNCHANGED <<now, cfg, dirs, nextDir, started, manual, appcast, sink,
                   terminate, log, result, lctBefore, prevFailed>>
    /\ UNCHANGED unit

\* One pass of the loop up to the call of PerformUpdateCheck(false) or, when
\* no check is due, up to the wait.
PeriodicLoop ==
    /\ pc["Periodic"] = "loop"
    /\ IF CheckDue(cfg, now)
       THEN BeginSession("Periodic", FALSE)
       ELSE /\ pc' = [pc EXCEPT !["Periodic"] = "wait"]
            /\ UNCHANGED <<manual, appcast, log, result, lctBefore,
                           prevFailed>>
    /\ UNCHANGED <<now, cfg, dirs, nextDir, started, sink, terminate>>
    /\ UNCHANGED unit

\* PeriodicWait with a wait of two quanta.
PeriodicWait_TwoQuanta ==
    /\ pc["Periodic"] = "wait"
    /\ IF terminate["Periodic"]
       THEN now' = now
       ELSE /\ now + 2 * Quantum <= MaxTime
            /\ now' = now + 2 * Quantum
    /\ pc' = [pc EXCEPT !["Periodic"] = "loop"]
    /\ appcast' = [appcast EXCEPT !["Periodic"] = EmptyAppcast]
    /\ log' = [log EXCEPT !["Periodic"] = <<>>]
    /\ result' = [result EXCEPT !["Periodic"] = "none"]
    /\ lctBefore' = [lctBefore EXCEPT !["Periodic"] = <<>>]
    /\ prevFailed' =
           [prevFailed EXCEPT !["Periodic"] = result["Periodic"] \in Errors]
    /\ UNCHANGED <<cfg, dirs, nextDir, started, manual, sink, terminate>>
    /\ UNCHANGED unit

\* m_terminateEvent.WaitUntilSignaled(sleepTimeInSeconds * 1000): returns at
\* once when the event is signaled, after the quantum otherwise. Run does
\* not look at what it returns. The record of the iteration's session is
\* dropped here.
PeriodicWait ==
    /\ pc["Periodic"] = "wait"
    /\ IF terminate["Periodic"]
       THEN now' = now
       ELSE /\ now + Quantum <= MaxTime
            /\ now' = now + Quantum
    /\ pc' = [pc EXCEPT !["Periodic"] = "loop"]
    /\ appcast' = [appcast EXCEPT !["Periodic"] = EmptyAppcast]
    /\ log' = [log EXCEPT !["Periodic"] = <<>>]
    /\ result' = [result EXCEPT !["Periodic"] = "none"]
    /\ lctBefore' = [lctBefore EXCEPT !["Periodic"] = <<>>]
    /\ prevFailed' =
           [prevFailed EXCEPT !["Periodic"] = result["Periodic"] \in Errors]
    /\ UNCHANGED <<cfg, dirs, nextDir, started, manual, sink, terminate>>
    /\ UNCHANGED unit

\* OneShotUpdateChecker::Run, which ManualUpdateChecker inherits.
OneShotRun(t) ==
    /\ t \in {"OneShot", "Manual"}
    /\ pc[t] = "start"
    /\ BeginSession(t, TRUE)
    /\ UNCHANGED <<now, cfg, dirs, nextDir, started, sink, terminate>>
    /\ UNCHANGED unit

\* Another thread signals the terminate event of thread t.
SignalTerminate(t) ==
    /\ t \in started
    /\ ~terminate[t]
    /\ terminate' = [terminate EXCEPT ![t] = TRUE]
    /\ UNCHANGED <<now, cfg, dirs, nextDir, started, pc, manual, appcast,
                   sink, log, result, lctBefore, prevFailed>>
    /\ UNCHANGED unit

(***************************************************************************)
(* UpdateChecker::PerformUpdateCheck, step by step.                        *)
(***************************************************************************)
\* The switch on AlternateAppcastCallback: the callback supplies the
\* Appcast, or the feed is fetched from the configured URL and parsed, or
\* the callback reports something unknown and the Appcast stays empty.
Acquire(t) ==
    /\ pc[t] = "acquire"
    /\ \E r \in AltResults :
          \/ /\ r \in {"0", "1"}
             /\ \E a \in Appcasts : appcast' = [appcast EXCEPT ![t] = a]
             /\ Continue(t, <<"FeedObtained">>, "record")
             /\ UNCHANGED sink
          \/ /\ r = "WINSPARKLE_RETURN_ERROR"
             /\ IF cfg.AppcastURL = ""
                THEN Raise(t, "ConfigurationError", <<>>) /\ UNCHANGED appcast
                ELSE IF CheckForInsecureURL(cfg.AppcastURL)
                THEN Raise(t, "InsecureTransport", <<>>) /\ UNCHANGED appcast
                ELSE \/ \E e \in {"NetworkError", "ParseError"} :
                           Raise(t, e, <<>>) /\ UNCHANGED appcast
                     \/ /\ \E a \in Appcasts :
                               appcast' = [appcast EXCEPT ![t] = a]
                        /\ Continue(t, <<"FeedObtained">>, "record")
                        /\ UNCHANGED sink
          \/ /\ r = "unknown"
             /\ Continue(t, <<"CallbackUnknown">>, "record")
             /\ UNCHANGED <<appcast, sink>>
    /\ UNCHANGED <<now, cfg, dirs, nextDir, started, terminate>>
    /\ UNCHANGED unit

\* Record without the check of the download URL.
Record_NoDownloadCheck(t) ==
    /\ pc[t] = "record"
    /\ cfg' = [cfg EXCEPT !.LastCheckTime = <<now>>]
    /\ LET a == appcast[t]
           ev == <<"WriteLastCheckTime">>
       IN  IF a.ReleaseNotesURL /= "" /\ CheckForInsecureURL(a.ReleaseNotesURL)
           THEN Raise(t, "InsecureTransport", ev)
           ELSE Continue(t, ev, "decide") /\ UNCHANGED sink
    /\ UNCHANGED <<now, dirs, nextDir, started, appcast, terminate>>
    /\ UNCHANGED unit

\* Record with the write of LastCheckTime made only for a valid Appcast.
Record_WriteIfValid(t) ==
    /\ pc[t] = "record"
    /\ cfg' = IF IsValid(appcast[t])
              THEN [cfg EXCEPT !.LastCheckTime = <<now>>]
              ELSE cfg
    /\ LET a == appcast[t]
           ev == IF IsValid(a) THEN <<"WriteLastCheckTime">> ELSE <<>>
       IN  IF a.ReleaseNotesURL /= "" /\ CheckForInsecureURL(a.ReleaseNotesURL)
           THEN Raise(t, "InsecureTransport", ev)
           ELSE IF a.DownloadURL /= "" /\ CheckForInsecureURL(a.DownloadURL)
           THEN Raise(t, "InsecureTransport", ev)
           ELSE Continue(t, ev, "decide") /\ UNCHANGED sink
    /\ UNCHANGED <<now, dirs, nextDir, started, appcast, terminate>>
    /\ UNCHANGED unit

\* Record without the write of LastCheckTime.
Record_NoWrite(t) ==
    /\ pc[t] = "record"
    /\ LET a == appcast[t]
       IN  IF a.ReleaseNotesURL /= "" /\ CheckForInsecureURL(a.ReleaseNotesURL)
           THEN Raise(t, "InsecureTransport", <<>>)
           ELSE IF a.DownloadURL /= "" /\ CheckForInsecureURL(a.DownloadURL)
           THEN Raise(t, "InsecureTransport", <<>>)
           ELSE Continue(t, <<>>, "decide") /\ UNCHANGED sink
    /\ UNCHANGED <<now, cfg, dirs, nextDir, started, appcast, terminate>>
    /\ UNCHANGED unit

\* The write of LastCheckTime and the checks of the Appcast's URLs.
Record(t) ==
    /\ pc[t] = "record"
    /\ cfg' = [cfg EXCEPT !.LastCheckTime = <<now>>]
    /\ LET a == appcast[t]
           ev == <<"WriteLastCheckTime">>
       IN  IF a.ReleaseNotesURL /= "" /\ CheckForInsecureURL(a.ReleaseNotesURL)
           THEN Raise(t, "InsecureTransport", ev)
           ELSE IF a.DownloadURL /= "" /\ CheckForInsecureURL(a.DownloadURL)
           THEN Raise(t, "InsecureTransport", ev)
           ELSE Continue(t, ev, "decide") /\ UNCHANGED sink
    /\ UNCHANGED <<now, dirs, nextDir, started, appcast, terminate>>
    /\ UNCHANGED unit

\* The branch on SilentInstall up to the decision: the silent path cleans
\* up and returns or goes on to the download, the interactive path
\* notifies and returns.
Decide(t) ==
    /\ pc[t] = "decide"
    /\ LET a == appcast[t]
       IN  IF a.SilentInstall
           THEN /\ cfg' = CleanLeftoversCfg(cfg)
                /\ dirs' = CleanLeftoversDirs(cfg, dirs)
                /\ IF UpToDate(a)
                   THEN Return(t, <<"CleanLeftovers">>)
                   ELSE IF a.DownloadURL /= ""
                   THEN /\ Continue(t, <<"CleanLeftovers">>, "mkdir")
                        /\ UNCHANGED sink
                   ELSE Return(t, <<"CleanLeftovers">>)
           ELSE /\ UNCHANGED <<cfg, dirs>>
                /\ IF UpToDate(a)
                   THEN Return(t, <<"NotifyNoUpdates">>)
                   ELSE IF ShouldSkip(t, cfg, a)
                   THEN Return(t, <<"NotifyNoUpdates">>)
                   ELSE Return(t, <<"NotifyUpdateAvailable">>)
    /\ UNCHANGED <<now, nextDir, started, appcast, terminate>>
    /\ UNCHANGED unit

\* CreateUniqueTempDirectory, the write of UpdateTempDir and the
\* construction of the sink.
Prepare(t) ==
    /\ pc[t] = "mkdir"
    /\ nextDir <= MaxDirs
    /\ dirs' = dirs \cup {nextDir}
    /\ nextDir' = nextDir + 1
    /\ cfg' = [cfg EXCEPT !.UpdateTempDir = <<nextDir>>]
    /\ sink' = [sink EXCEPT ![t] = SinkNew(nextDir)]
    /\ Continue(t, <<"CreateUniqueTempDirectory">>, "dlopen")
    /\ UNCHANGED <<now, started, appcast, terminate>>
    /\ UNCHANGED unit

\* DownloadFile up to its first read: the request fails, or the sink is
\* told the length and the file name.
DlOpen(t) ==
    /\ pc[t] = "dlopen"
    /\ \/ Raise(t, "NetworkError", <<>>)
       \/ \E total \in 0..MaxChunks, canOpen \in BOOLEAN :
             LET r == SinkSetFilename(SinkSetLength(sink[t], total), "file",
                                      canOpen)
             IN  IF r.err /= ""
                 THEN Raise(t, r.err, <<>>)
                 ELSE /\ sink' = [sink EXCEPT ![t] = r.s]
                      /\ Continue(t, <<>>, "dladd")
    /\ UNCHANGED <<now, cfg, dirs, nextDir, started, appcast, terminate>>
    /\ UNCHANGED unit

\* DownloadFile hands one chunk (of one byte) to the sink.
DlAdd(t) ==
    /\ pc[t] = "dladd"
    /\ sink[t].m_downloaded < MaxChunks
    /\ \E writeOk \in BOOLEAN,
          clk \in {c \in ClockReadings : c >= sink[t].clock} :
          LET r == SinkAdd(sink[t], 1, CheckShouldTerminate(t), writeOk, clk)
          IN  IF r.err /= ""
              THEN Raise(t, r.err, <<>>)
              ELSE /\ sink' = [sink EXCEPT ![t] = r.s]
                   /\ Continue(t,
                               IF r.notified
                               THEN <<"Add", "NotifyDownloadProgress">>
                               ELSE <<"Add">>,
                               "dladd")
    /\ UNCHANGED <<now, cfg, dirs, nextDir, started, appcast, terminate>>
    /\ UNCHANGED unit

\* DownloadFile ends: the transfer breaks, or the data is complete and
\* PerformUpdateCheck closes the sink.
DlEnd(t) ==
    /\ pc[t] = "dladd"
    /\ \/ Raise(t, "NetworkError", <<>>)
       \/ /\ sink' = [sink EXCEPT ![t] = SinkClose(sink[t])]
          /\ Continue(t, <<>>, "verify")
    /\ UNCHANGED <<now, cfg, dirs, nextDir, started, appcast, terminate>>
    /\ UNCHANGED unit

\* Verify without the call of the verifier.
Verify_Unchecked(t) ==
    /\ pc[t] = "verify"
    /\ Continue(t, <<"UsingUnsigned">>, "launch")
    /\ UNCHANGED <<now, cfg, dirs, nextDir, started, appcast, sink, terminate>>
    /\ UNCHANGED unit

\* The signature check: with a public key configured the verifier decides,
\* without one the file is accepted with a logged complaint.
Verify(t) ==
    /\ pc[t] = "verify"
    /\ IF cfg.HasDSAPubKeyPem
       THEN \E signatureMatches \in BOOLEAN :
               LET e == VerifyDSASHA1SignatureValid(signatureMatches)
               IN  IF e /= ""
                   THEN Raise(t, e, <<"VerifyFailed">>)
                   ELSE Continue(t, <<"VerifyOK">>, "launch")
                        /\ UNCHANGED sink
       ELSE Continue(t, <<"UsingUnsigned">>, "launch") /\ UNCHANGED sink
    /\ UNCHANGED <<now, cfg, dirs, nextDir, started, appcast, terminate>>
    /\ UNCHANGED unit

\* UpdateChecker::CreateInstallerProcess; created: whether CreateProcess
\* succeeds.
CreateInstallerProcess(filePath, created) ==
    IF filePath = "" THEN FALSE ELSE created

\* The call of CreateInstallerProcess, whose result is dropped, and the
\* return from the session.
Launch(t) ==
    /\ pc[t] = "launch"
    /\ \E created \in BOOLEAN :
          Return(t,
                 IF CreateInstallerProcess(sink[t].m_path, created)
                 THEN <<"CreateInstallerProcess", "ProcessCreated">>
                 ELSE <<"CreateInstallerProcess">>)
    /\ UNCHANGED <<now, cfg, dirs, nextDir, started, appcast, terminate>>
    /\ UNCHANGED unit

Next ==
    \/ PeriodicStart
    \/ PeriodicLoop
    \/ PeriodicWait
    \/ \E t \in Threads : OneShotRun(t)
    \/ \E t \in Threads : SignalTerminate(t)
    \/ \E t \in Threads : Acquire(t)
    \/ \E t \in Threads : Record(t)
    \/ \E t \in Threads : Decide(t)
    \/ \E t \in Threads : Prepare(t)
    \/ \E t \in Threads : DlOpen(t)
    \/ \E t \in Threads : DlAdd(t)
    \/ \E t \in Threads : DlEnd(t)
    \/ \E t \in Threads : Verify(t)
    \/ \E t \in Threads : Launch(t)

Spec == Init /\ [][Next]_vars

\* The scheduler of the operating system lets a thread that can run take
\* its next step.
FairSpec == Spec /\ WF_vars(Next)

TypeOK ==
    /\ now \in 1..MaxTime
    /\ started \subseteq Threads
    /\ dirs \subseteq 1..MaxDirs
    /\ \A t \in Threads :
          /\ pc[t] \in SessionPcs \cup
                 {"off", "start", "loop", "wait", "done", "failed"}
          /\ result[t] \in Errors \cup {"none", "returned"}

(***************************************************************************)
(* Reading the record of a session.                                        *)
(***************************************************************************)
Has(t, e) == \E i \in DOMAIN log[t] : log[t][i] = e

\* Every occurrence of event e in the log has an occurrence of d before it.
Preceded(t, d, e) ==
    \A i \in DOMAIN log[t] :
        log[t][i] = e => \E j \in 1..(i - 1) : log[t][j] = d

\* The number of terminal notifications of the session.
Terminals(t) ==
    Cardinality({i \in DOMAIN log[t] : log[t][i] \in TerminalNotifications})

\* The session of thread t has ended, by a return or by a failure.
Ended(t) == result[t] /= "none"

\* The feed offers a version newer than the installed one.
Newer(a) == CompareVersions(AppBuildVersion, a.Version) < 0

(***************************************************************************)
(* Properties.                                                             *)
(***************************************************************************)
\* C1: with a public key configured, the installer process is launched only
\* after the verifier accepted the file in the same session, and a session
\* whose verification fails never calls CreateInstallerProcess.
C1_VerifiedBeforeLaunch ==
    \A t \in Threads :
        cfg.HasDSAPubKeyPem =>
            /\ Preceded(t, "VerifyOK", "CreateInstallerProcess")
            /\ (Has(t, "VerifyFailed") \/ result[t] = "VerificationFailure") =>
                   /\ ~Has(t, "CreateInstallerProcess")
                   /\ ~Has(t, "ProcessCreated")

C1_Witness ==
    \E t \in Threads :
        /\ cfg.HasDSAPubKeyPem
        /\ appcast[t].SilentInstall
        /\ Has(t, "VerifyFailed")
        /\ result[t] = "VerificationFailure"

\* C2: a session whose Appcast has a plain-HTTP download URL fails before
\* anything is written: it creates no temp directory and no sink, adds no
\* chunk, launches no installer, and ends with the insecure-URL error,
\* whatever the other fields of the Appcast are.
C2_InsecureDownloadFailsEarly ==
    \A t \in Threads :
        appcast[t].DownloadURL = "http" =>
            /\ ~Has(t, "CreateUniqueTempDirectory")
            /\ ~Has(t, "Add")
            /\ ~Has(t, "CreateInstallerProcess")
            /\ ~sink[t].exists
            /\ pc[t] \notin {"decide", "mkdir", "dlopen", "dladd", "verify",
                             "launch"}
            /\ Ended(t) => result[t] = "InsecureTransport"

C2_Witness ==
    \E t \in Threads :
        /\ appcast[t].DownloadURL = "http"
        /\ appcast[t].ReleaseNotesURL = "https"
        /\ appcast[t].SilentInstall
        /\ IsValid(appcast[t])
        /\ Newer(appcast[t])
        /\ result[t] = "InsecureTransport"

\* The case of C3: a session that returned, for a valid non-silent Appcast
\* that offers a newer version, which is the stored SkipThisVersion.
C3_Case(t) ==
    /\ result[t] = "returned"
    /\ ~appcast[t].SilentInstall
    /\ IsValid(appcast[t])
    /\ Newer(appcast[t])
    /\ cfg.SkipThisVersion = <<appcast[t].Version>>

\* C3 as stated: in that case a session run with manual = false ends with
\* NotifyNoUpdates and one run with manual = true ends with
\* NotifyUpdateAvailable.
C3_ManualArgumentDecides ==
    \A t \in Threads :
        C3_Case(t) =>
            IF manual[t]
            THEN Has(t, "NotifyUpdateAvailable")
            ELSE Has(t, "NotifyNoUpdates") /\ ~Has(t, "NotifyUpdateAvailable")

\* C3 as amended: in that case the session of a PeriodicUpdateChecker or of
\* a plain OneShotUpdateChecker ends with NotifyNoUpdates and never
\* NotifyUpdateAvailable, and the session of a ManualUpdateChecker ends with
\* NotifyUpdateAvailable.
C3_CheckerClassDecides ==
    \A t \in Threads :
        C3_Case(t) =>
            IF t = "Manual"
            THEN Has(t, "NotifyUpdateAvailable") /\ ~Has(t, "NotifyNoUpdates")
            ELSE Has(t, "NotifyNoUpdates") /\ ~Has(t, "NotifyUpdateAvailable")

C3_Witness ==
    /\ C3_Case("Manual")
    /\ manual["Manual"]
    /\ Has("Manual", "NotifyUpdateAvailable")

\* C4 as stated: a session that ended delivered exactly one terminal
\* notification, or none if it launched the installer.
C4_OneNotificationUnlessLaunched ==
    \A t \in Threads :
        Ended(t) =>
            Terminals(t) = IF Has(t, "ProcessCreated") THEN 0 ELSE 1

\* C4 as amended: a session never delivers two terminal notifications and
\* none before it ends; one that raises delivers exactly the error
\* notification, an interactive one that returns delivers exactly one of
\* NotifyNoUpdates and NotifyUpdateAvailable, and a silent-install one that
\* returns delivers none.
C4_OneNotificationUnlessSilentReturn ==
    \A t \in Threads :
        /\ Terminals(t) <= 1
        /\ ~Ended(t) => Terminals(t) = 0
        /\ result[t] \in Errors =>
               Terminals(t) = 1 /\ Has(t, "NotifyUpdateError")
        /\ (result[t] = "returned" /\ ~appcast[t].SilentInstall) =>
               Terminals(t) = 1 /\ ~Has(t, "NotifyUpdateError")
        /\ (result[t] = "returned" /\ appcast[t].SilentInstall) =>
               Terminals(t) = 0

C4_Witness ==
    \E t \in Threads :
        /\ result[t] = "returned"
        /\ appcast[t].SilentInstall
        /\ IsValid(appcast[t])
        /\ ~Newer(appcast[t])
        /\ Terminals(t) = 0

\* C5: a session ended by the cancellation that Add raises emits no
\* NotifyUpdateError.
C5_CancelledIsNotAnError ==
    \A t \in Threads :
        result[t] = "Cancelled" => ~Has(t, "NotifyUpdateError")

\* C6: once the terminate event of the periodic checker is signaled, its
\* Run eventually ends.
C6_TerminateEndsRun ==
    ("Periodic" \in started /\ terminate["Periodic"])
        ~> (pc["Periodic"] \in {"done", "failed"})

\* C7: the periodic checker never stops because of a session: Run is always
\* in its loop, and after a session that raised it is at its wait.
C7_FailureKeepsChecking ==
    "Periodic" \in started =>
        /\ pc["Periodic"] \in {"start", "loop", "wait"} \cup SessionPcs
        /\ result["Periodic"] \in Errors => pc["Periodic"] = "wait"

C7_Witness ==
    /\ prevFailed["Periodic"]
    /\ pc["Periodic"] \in SessionPcs

\* C8: a pass of the periodic loop runs a session exactly when
\* CheckForUpdates is stored as true and the time has reached LastCheckTime
\* (0 when absent) plus the interval; the session runs with manual = false;
\* the pass goes to the wait otherwise, and every session is followed by
\* the wait.
C8_SessionIffDue ==
    [][ /\ (pc["Periodic"] = "loop" /\ pc'["Periodic"] /= "loop") =>
              /\ pc'["Periodic"] \in {"acquire", "wait"}
              /\ pc'["Periodic"] = "acquire" <=>
                     /\ cfg.CheckForUpdates = "true"
                     /\ now >= (IF cfg.LastCheckTime = <<>> THEN 0
                                ELSE cfg.LastCheckTime[1]) + cfg.Interval
              /\ pc'["Periodic"] = "acquire" => ~manual'["Periodic"]
        /\ (pc["Periodic"] \in SessionPcs /\ pc'["Periodic"] \notin SessionPcs)
              => pc'["Periodic"] = "wait"
        /\ (pc["Periodic"] /= "loop" /\ pc'["Periodic"] = "loop")
              => pc["Periodic"] \in {"start", "wait"}
      ]_vars

C8_Witness ==
    /\ pc["Periodic"] = "record"
    /\ ~manual["Periodic"]
    /\ lctBefore["Periodic"] = <<1>>
    /\ cfg.Interval = 1
    /\ now = 2

\* The session of thread t wrote LastCheckTime, and the store holds it.
WroteLastCheckTime(t) ==
    Has(t, "WriteLastCheckTime") /\ cfg.LastCheckTime = <<now>>

\* The session of thread t left LastCheckTime as it found it.
KeptLastCheckTime(t) ==
    ~Has(t, "WriteLastCheckTime") /\ cfg.LastCheckTime = lctBefore[t]

\* C9 as stated: a session that ended wrote LastCheckTime if it obtained a
\* feed and left it unchanged if it did not.
C9_WrittenIffFeedObtained ==
    \A t \in Threads :
        Ended(t) =>
            IF Has(t, "FeedObtained") THEN WroteLastCheckTime(t)
            ELSE KeptLastCheckTime(t)

\* C9 as amended: a session that ended wrote LastCheckTime if it obtained a
\* feed or the alternate provider reported an unknown result, and left it
\* unchanged if it failed for a missing or insecure feed URL or a failed
\* fetch or parse.
C9_WrittenIffAcquisitionPassed ==
    \A t \in Threads :
        Ended(t) =>
            IF Has(t, "FeedObtained") \/ Has(t, "CallbackUnknown")
            THEN WroteLastCheckTime(t)
            ELSE /\ KeptLastCheckTime(t)
                 /\ result[t] \in {"ConfigurationError", "InsecureTransport",
                                   "NetworkError", "ParseError"}

C9_Witness ==
    \E t \in Threads :
        /\ Ended(t)
        /\ Has(t, "CallbackUnknown")
        /\ WroteLastCheckTime(t)
        /\ cfg.LastCheckTime /= lctBefore[t]

\* C10: when a session reports NotifyNoUpdates or NotifyUpdateAvailable it
\* has written LastCheckTime before, and the store holds the new value.
C10_WriteBeforeReport ==
    \A t \in Threads :
        \A i \in DOMAIN log[t] :
            log[t][i] \in {"NotifyNoUpdates", "NotifyUpdateAvailable"} =>
                /\ \E j \in 1..(i - 1) : log[t][j] = "WriteLastCheckTime"
                /\ cfg.LastCheckTime = <<now>>

C10_Witness ==
    \E t \in Threads :
        /\ Has(t, "NotifyUpdateAvailable")
        /\ cfg.LastCheckTime = <<now>>
        /\ lctBefore[t] /= cfg.LastCheckTime

\* The number of NotifyUpdateError notifications of the session.
ErrorReports(t) ==
    Cardinality({i \in DOMAIN log[t] : log[t][i] = "NotifyUpdateError"})

\* The session called CreateInstallerProcess and no process was created.
SpawnFailed(t) ==
    Has(t, "CreateInstallerProcess") /\ ~Has(t, "ProcessCreated")

\* C11: a session that fails, a failure to spawn the installer included,
\* reports exactly one NotifyUpdateError, as its last event, and leaves
\* PerformUpdateCheck by the failure; a session that returns normally had
\* no failure and reports no error.
C11_EveryFailureReported ==
    \A t \in Threads :
        /\ result[t] \in Errors =>
               /\ ErrorReports(t) = 1
               /\ log[t][Len(log[t])] = "NotifyUpdateError"
        /\ SpawnFailed(t) =>
               /\ result[t] \in Errors
               /\ ErrorReports(t) = 1
        /\ result[t] = "returned" => ErrorReports(t) = 0

\* C12: OneShotUpdateChecker::Run enters a session only from its start and
\* with manual = true, is over as soon as the session ends, as a failure of
\* Run when the session raised and as a normal end otherwise, and never
\* runs a second session.
C12_OneSessionThenEnd ==
    [][ \A t \in {"OneShot", "Manual"} :
           /\ (pc[t] \notin SessionPcs /\ pc'[t] \in SessionPcs) =>
                  /\ pc[t] = "start"
                  /\ pc'[t] = "acquire"
                  /\ manual'[t]
           /\ (pc[t] \in SessionPcs /\ pc'[t] \notin SessionPcs) =>
                  /\ result'[t] /= "none"
                  /\ pc'[t] = IF result'[t] \in Errors THEN "failed"
                              ELSE "done"
           /\ pc[t] \in SessionPcs => manual[t] /\ manual'[t]
           /\ pc[t] \in {"done", "failed"} =>
                  /\ pc'[t] = pc[t]
                  /\ result'[t] = result[t]
      ]_vars

C12_Witness ==
    /\ pc["OneShot"] = "failed"
    /\ manual["OneShot"]
    /\ result["OneShot"] = "NetworkError"

(***************************************************************************)
(* The sink on its own: a client makes any calls, in any order, on one     *)
(* UpdateDownloadSink, and another thread may signal the terminate event   *)
(* of the thread that owns it.                                             *)
(***************************************************************************)
\* A client makes at most MaxCalls calls on the sink.
MaxCalls == 4

\* The thread that the sink was constructed for (m_thread).
SinkOwner == "OneShot"

\* File names a client can pass to SetFilename.
FileNames == {"file", "other"}

\* The record of one call: the operation, the error it raised ("" for
\* none), whether it notified progress, the reading of clock() it made (0
\* when it made none), and the sink's members as the call left them.
CallRecord(op, err, notified, clk, s) ==
    [ op |-> op, err |-> err, notified |-> notified, clk |-> clk,
      path |-> s.m_path, downloaded |-> s.m_downloaded, total |-> s.m_total,
      lastUpdate |-> s.m_lastUpdate ]

SinkInit ==
    /\ now = 1
    /\ cfg = [ CheckForUpdates |-> "absent", LastCheckTime |-> <<>>,
               SkipThisVersion |-> <<>>, UpdateTempDir |-> <<1>>,
               AppcastURL |-> "https", HasDSAPubKeyPem |-> FALSE,
               Interval |-> 1 ]
    /\ dirs = {1}
    /\ nextDir = 2
    /\ started = {SinkOwner}
    /\ pc = [t \in Threads |-> "off"]
    /\ manual = [t \in Threads |-> FALSE]
    /\ appcast = [t \in Threads |-> EmptyAppcast]
    /\ sink = [t \in Threads |-> IF t = SinkOwner THEN SinkNew(1) ELSE NoSink]
    /\ terminate = [t \in Threads |-> FALSE]
    /\ log = [t \in Threads |-> <<>>]
    /\ result = [t \in Threads |-> "none"]
    /\ lctBefore = [t \in Threads |-> <<>>]
    /\ prevFailed = [t \in Threads |-> FALSE]
    /\ calls = <<>>
    /\ vers = <<>>
    /\ cmp = <<>>
    /\ overflow = "saturate"

\* The sink exists and the client has a call left.
CanCall == sink[SinkOwner].exists /\ Len(calls) < MaxCalls

\* A call that leaves the sink as s is recorded.
Called(record, s) ==
    /\ calls' = Append(calls, record)
    /\ sink' = [sink EXCEPT ![SinkOwner] = s]
    /\ UNCHANGED <<now, cfg, dirs, nextDir, started, pc, manual, appcast,
                   terminate, log, result, lctBefore, prevFailed, vers, cmp,
                   overflow>>

CallSetLength ==
    /\ CanCall
    /\ \E l \in 1..MaxChunks :
          LET s == SinkSetLength(sink[SinkOwner], l)
          IN  Called(CallRecord("SetLength", "", FALSE, 0, s), s)

CallSetFilename ==
    /\ CanCall
    /\ \E filename \in FileNames, canOpen \in BOOLEAN :
          LET r == SinkSetFilename(sink[SinkOwner], filename, canOpen)
          IN  Called(CallRecord("SetFilename", r.err, FALSE, 0, r.s), r.s)

CallAdd ==
    /\ CanCall
    /\ \E writeOk \in BOOLEAN,
          clk \in {c \in ClockReadings \cup {ClockFailed} :
                       c = ClockFailed \/ c >= sink[SinkOwner].clock} :
          LET r == SinkAdd(sink[SinkOwner], 1, CheckShouldTerminate(SinkOwner),
                           writeOk, clk)
          IN  Called(CallRecord("Add", r.err, r.notified,
                                IF r.err = "" THEN clk ELSE 0, r.s),
                     r.s)

CallClose ==
    /\ CanCall
    /\ LET s == SinkClose(sink[SinkOwner])
       IN  Called(CallRecord("Close", "", FALSE, 0, s), s)

\* The sink goes out of scope.
CallDestroy ==
    /\ CanCall
    /\ LET s == SinkDestroy(sink[SinkOwner])
       IN  Called(CallRecord("Destroy", "", FALSE, 0, s), s)

SinkNext ==
    \/ CallSetLength
    \/ CallSetFilename
    \/ CallAdd
    \/ CallClose
    \/ CallDestroy
    \/ SignalTerminate(SinkOwner)

SinkSpec == SinkInit /\ [][SinkNext]_vars

\* C13: once a SetFilename call has succeeded, every later SetFilename call
\* on the sink fails with AlreadyBound and leaves the path as the
\* successful call set it, whatever calls of SetLength, Add and Close were
\* made in between.
C13_SecondSetFilenameFails ==
    \A i \in DOMAIN calls : \A j \in DOMAIN calls :
        ( /\ i < j
          /\ calls[i].op = "SetFilename" /\ calls[i].err = ""
          /\ calls[j].op = "SetFilename" ) =>
            /\ calls[j].err = "AlreadyBound"
            /\ calls[j].path = calls[i].path

\* Call k is an Add that succeeded.
AddSucceeded(k) == calls[k].op = "Add" /\ calls[k].err = ""

\* The last-report time as call k found it.
LastUpdateBefore(k) == IF k = 1 THEN -1 ELSE calls[k - 1].lastUpdate

\* At the clock reading of call k at least 100ms had passed since the
\* last-report time.
Elapsed100ms(k) ==
    calls[k].clk - LastUpdateBefore(k) >= CLOCKS_PER_SEC \div 10

\* Call k left the downloaded count equal to the total.
Completes(k) == calls[k].downloaded = calls[k].total

\* C14 as stated: a successful Add notifies exactly when it completes the
\* download or at least 100ms have passed since the last-report time; an
\* Add that notifies sets the last-report time to its clock reading, one
\* that does not leaves it unchanged.
C14_NotifiedIffCompleteOrElapsed ==
    \A k \in DOMAIN calls :
        AddSucceeded(k) =>
            /\ calls[k].notified <=> (Completes(k) \/ Elapsed100ms(k))
            /\ calls[k].notified => calls[k].lastUpdate = calls[k].clk
            /\ ~calls[k].notified =>
                   calls[k].lastUpdate = LastUpdateBefore(k)

\* C14 as amended: a successful Add notifies exactly when clock() failed
\* (returned -1), or it completes the download, or at least 100ms have
\* passed since the last-report time, which is -1 on a fresh sink; an Add
\* that notifies sets the last-report time to its clock reading, one that
\* does not leaves it unchanged.
C14_NotifiedIffClockFailedOrCompleteOrElapsed ==
    \A k \in DOMAIN calls :
        AddSucceeded(k) =>
            /\ calls[k].notified <=>
                   \/ calls[k].clk = ClockFailed
                   \/ Completes(k)
                   \/ Elapsed100ms(k)
            /\ calls[k].notified => calls[k].lastUpdate = calls[k].clk
            /\ ~calls[k].notified =>
                   calls[k].lastUpdate = LastUpdateBefore(k)

C14_Witness ==
    \E k \in DOMAIN calls :
        /\ AddSucceeded(k)
        /\ Completes(k)
        /\ ~Elapsed100ms(k)
        /\ calls[k].clk /= ClockFailed
        /\ calls[k].notified

\* Call k is an Add that succeeded and read the clock.
TimedAdd(k) == AddSucceeded(k) /\ calls[k].clk /= ClockFailed

\* The calls so far are the binding of a fresh sink (SetLength and a
\* successful SetFilename, in either order) followed by timed Adds only.
FreshSinkThenAdds ==
    /\ \A k \in DOMAIN calls :
          \/ TimedAdd(k)
          \/ calls[k].op \in {"SetLength", "SetFilename"} /\ calls[k].err = ""
    /\ \A i \in DOMAIN calls : \A j \in DOMAIN calls :
          (i < j /\ TimedAdd(i)) => TimedAdd(j)

\* Call k is the first Add.
FirstAdd(k) == TimedAdd(k) /\ (k = 1 \/ ~TimedAdd(k - 1))

\* C15: on a fresh sink that only gets Adds, when all Adds fall within less
\* than 100ms exactly the first Add and the Add that completes the download
\* notify, and when each Add comes at least 100ms after the one before it
\* every Add notifies, at whatever clock reading the first Add occurs.
C15_FirstAndCompletionNotify ==
    FreshSinkThenAdds =>
        /\ (\A i \in DOMAIN calls : \A j \in DOMAIN calls :
               (TimedAdd(i) /\ TimedAdd(j)) =>
                   calls[j].clk - calls[i].clk < CLOCKS_PER_SEC \div 10)
           => \A k \in DOMAIN calls :
                  TimedAdd(k) =>
                      (calls[k].notified <=> (FirstAdd(k) \/ Completes(k)))
        /\ (\A k \in DOMAIN calls :
               (TimedAdd(k) /\ ~FirstAdd(k)) =>
                   calls[k].clk - calls[k - 1].clk >= CLOCKS_PER_SEC \div 10)
           => \A k \in DOMAIN calls : TimedAdd(k) => calls[k].notified

\* C16: fclose is never called without an open handle, the sink holds one
\* open handle while it is bound and none otherwise, a Close after a Close
\* changes nothing, and a destroyed sink has closed every handle it opened.
C16_HandleReleasedOnce ==
    LET s == sink[SinkOwner]
    IN  /\ s.fcloses <= s.fopens
        /\ s.fopens - s.fcloses = IF s.m_file THEN 1 ELSE 0
        /\ SinkClose(SinkClose(s)) = SinkClose(s)
        /\ ~s.exists => ~s.m_file /\ s.fcloses = s.fopens

C16_Witness ==
    /\ ~sink[SinkOwner].exists
    /\ sink[SinkOwner].fopens = 1
    /\ sink[SinkOwner].fcloses = 1
    /\ Len(calls) = 4
    /\ calls[2].op = "Close"
    /\ calls[3].op = "Close"
    /\ calls[4].op = "Destroy"

\* The step is a call of Add.
AddCalled ==
    /\ Len(calls') = Len(calls) + 1
    /\ calls'[Len(calls')].op = "Add"

\* C20: an Add on a bound sink whose owner's terminate event is signaled
\* raises Cancelled and changes nothing: the chunk is not written, the
\* downloaded count and the last-report time stay, no progress is notified,
\* and the file stays open with what was written before.
C20_CancelledAddChangesNothing ==
    [][ (AddCalled /\ terminate[SinkOwner] /\ sink[SinkOwner].m_file) =>
            /\ calls'[Len(calls')].err = "Cancelled"
            /\ ~calls'[Len(calls')].notified
            /\ sink'[SinkOwner] = sink[SinkOwner]
      ]_vars

C20_Witness ==
    /\ calls /= <<>>
    /\ calls[Len(calls)].op = "Add"
    /\ calls[Len(calls)].err = "Cancelled"
    /\ terminate[SinkOwner]
    /\ sink[SinkOwner].m_file
    /\ sink[SinkOwner].written = 1
    /\ sink[SinkOwner].m_downloaded = 1

(***************************************************************************)
(* The comparator on its own: three version strings are chosen and         *)
(* CompareVersions is applied to every pair of them, in both orders. The   *)
(* three are listed in the order of their bytes, which loses no case.      *)
(***************************************************************************)
\* A version string handed to the comparator has at most MaxLen characters.
MaxLen == 2

\* Characters of the version strings: digits, letters and the period.
Alphabet == {"0", "1", "a", "."}

VersionStrings == UNION {[1..n -> Alphabet] : n \in 0..MaxLen}

CmpInit ==
    /\ now = 1
    /\ cfg = [ CheckForUpdates |-> "absent", LastCheckTime |-> <<>>,
               SkipThisVersion |-> <<>>, UpdateTempDir |-> <<>>,
               AppcastURL |-> "https", HasDSAPubKeyPem |-> FALSE,
               Interval |-> 1 ]
    /\ dirs = {}
    /\ nextDir = 1
    /\ started = {}
    /\ pc = [t \in Threads |-> "off"]
    /\ manual = [t \in Threads |-> FALSE]
    /\ appcast = [t \in Threads |-> EmptyAppcast]
    /\ sink = [t \in Threads |-> NoSink]
    /\ terminate = [t \in Threads |-> FALSE]
    /\ log = [t \in Threads |-> <<>>]
    /\ result = [t \in Threads |-> "none"]
    /\ lctBefore = [t \in Threads |-> <<>>]
    /\ prevFailed = [t \in Threads |-> FALSE]
    /\ calls = <<>>
    /\ vers \in {v \in VersionStrings \X VersionStrings \X VersionStrings :
                    /\ StringCompare(v[1], v[2]) <= 0
                    /\ StringCompare(v[2], v[3]) <= 0}
    /\ cmp = <<>>
    /\ overflow \in {"saturate", "wrap"}

\* CompareVersions is called on every pair of the chosen strings; cmp[i][j]
\* is what it returned for the i-th and the j-th.
Compare ==
    /\ cmp = <<>>
    /\ cmp' = [i \in DOMAIN vers |->
                 [j \in DOMAIN vers |-> CompareVersions(vers[i], vers[j])]]
    /\ UNCHANGED <<now, cfg, dirs, nextDir, started, pc, manual, appcast,
                   sink, terminate, log, result, lctBefore, prevFailed,
                   calls, vers, overflow>>

CmpNext == Compare

CmpSpec == CmpInit /\ [][CmpNext]_vars

\* C17: CompareVersions orders the version strings: a string compares equal
\* to itself, swapping the arguments negates the result, and greater-than
\* is transitive.
C17_TotalOrder ==
    cmp /= <<>> =>
        \A i \in 1..3 : \A j \in 1..3 : \A k \in 1..3 :
            /\ cmp[i][i] = 0
            /\ cmp[i][j] = -cmp[j][i]
            /\ (cmp[i][j] > 0 /\ cmp[j][k] > 0) => cmp[i][k] > 0

C17_Witness ==
    /\ cmp /= <<>>
    /\ vers = << <<"1">>, <<"1", ".">>, <<"1", "a">> >>
    /\ cmp[2][1] > 0
    /\ cmp[1][3] > 0
    /\ cmp[2][3] > 0

\* The session of thread t got past the acquisition with an Appcast that is
\* not valid.
C18_Case(t) ==
    /\ Has(t, "FeedObtained") \/ Has(t, "CallbackUnknown")
    /\ ~IsValid(appcast[t])

\* The session of thread t neither offered an update nor started a
\* download or an installer.
NothingOffered(t) ==
    /\ ~Has(t, "NotifyUpdateAvailable")
    /\ ~Has(t, "CreateUniqueTempDirectory")
    /\ ~Has(t, "Add")
    /\ ~Has(t, "CreateInstallerProcess")
    /\ ~sink[t].exists

\* The Appcast has a release-notes or download URL that CheckForInsecureURL
\* rejects.
InsecureURLs(a) ==
    \/ a.ReleaseNotesURL /= "" /\ CheckForInsecureURL(a.ReleaseNotesURL)
    \/ a.DownloadURL /= "" /\ CheckForInsecureURL(a.DownloadURL)

\* C18 as stated: a session with an invalid Appcast never offers an update,
\* never downloads or launches, never reports an error, and ends by a
\* normal return, whatever the other fields of the Appcast are.
C18_InvalidAlwaysNoUpdate ==
    \A t \in Threads :
        C18_Case(t) =>
            /\ NothingOffered(t)
            /\ ~Has(t, "NotifyUpdateError")
            /\ Ended(t) => result[t] = "returned"

\* C18 as amended: a session with an invalid Appcast never offers an
\* update and never downloads or launches; when the Appcast has an
\* insecure release-notes or download URL the session ends with the
\* insecure-URL error and one NotifyUpdateError, and otherwise it returns
\* without an error, with NotifyNoUpdates on the interactive path and with
\* no notification on the silent path.
C18_InvalidNoUpdateUnlessInsecure ==
    \A t \in Threads :
        C18_Case(t) =>
            /\ NothingOffered(t)
            /\ Ended(t) =>
                   IF InsecureURLs(appcast[t])
                   THEN /\ result[t] = "InsecureTransport"
                        /\ ErrorReports(t) = 1
                        /\ Terminals(t) = 1
                   ELSE /\ result[t] = "returned"
                        /\ ErrorReports(t) = 0
                        /\ IF appcast[t].SilentInstall
                           THEN Terminals(t) = 0
                           ELSE Terminals(t) = 1 /\ Has(t, "NotifyNoUpdates")

C18_Witness ==
    \E t \in Threads :
        /\ C18_Case(t)
        /\ Newer(appcast[t])
        /\ appcast[t].DownloadURL = "https"
        /\ ~appcast[t].SilentInstall
        /\ result[t] = "returned"
        /\ Has(t, "NotifyNoUpdates")

(***************************************************************************)
(* Two checkers at once: the periodic checker is running and the           *)
(* application starts a manual check. Both feeds announce the same silent  *)
(* update.                                                                 *)
(***************************************************************************)
\* The Appcast of a silent update: valid, newer than the installed version,
\* with a secure download URL.
SilentUpdate ==
    [ Version |-> <<"1", ".", "2">>, DownloadURL |-> "https",
      ReleaseNotesURL |-> "", SilentInstall |-> TRUE, Valid |-> TRUE ]

ConcInit ==
    /\ now = 1
    /\ started = {"Periodic", "Manual"}
    /\ cfg = [ CheckForUpdates |-> "true", LastCheckTime |-> <<>>,
               SkipThisVersion |-> <<>>, UpdateTempDir |-> <<>>,
               AppcastURL |-> "https", HasDSAPubKeyPem |-> FALSE,
               Interval |-> 2 ]
    /\ dirs = {}
    /\ nextDir = 1
    /\ pc = [t \in Threads |-> IF t \in started THEN "start" ELSE "off"]
    /\ manual = [t \in Threads |-> FALSE]
    /\ appcast = [t \in Threads |-> EmptyAppcast]
    /\ sink = [t \in Threads |-> NoSink]
    /\ terminate = [t \in Threads |-> FALSE]
    /\ log = [t \in Threads |-> <<>>]
    /\ result = [t \in Threads |-> "none"]
    /\ lctBefore = [t \in Threads |-> <<>>]
    /\ prevFailed = [t \in Threads |-> FALSE]
    /\ calls = <<>>
    /\ vers = <<>>
    /\ cmp = <<>>
    /\ overflow = "saturate"

\* The steps of the two checkers, interleaved; every session obtains the
\* silent update.
ConcNext ==
    \/ PeriodicStart
    \/ PeriodicLoop
    \/ PeriodicWait
    \/ \E t \in Threads : OneShotRun(t)
    \/ \E t \in Threads : Acquire(t) /\ appcast'[t] = SilentUpdate
    \/ \E t \in Threads : Record(t)
    \/ \E t \in Threads : Decide(t)
    \/ \E t \in Threads : Prepare(t)
    \/ \E t \in Threads : DlOpen(t)
    \/ \E t \in Threads : DlAdd(t)
    \/ \E t \in Threads : DlEnd(t)
    \/ \E t \in Threads : Verify(t)
    \/ \E t \in Threads : Launch(t)

ConcSpec == ConcInit /\ [][ConcNext]_vars

\* The download of thread t is in flight: DownloadFile is writing through
\* the sink into the session's temp directory.
InFlight(t) == sink[t].exists /\ pc[t] \in {"dlopen", "dladd"}

\* C19: while the download of a session is in flight its temp directory
\* exists and no other session's sink writes into it.
C19_TempDirExclusive ==
    \A t \in Threads :
        InFlight(t) =>
            /\ sink[t].m_dir \in dirs
            /\ \A u \in Threads \ {t} :
                   sink[u].exists => sink[u].m_dir /= sink[t].m_dir

(***************************************************************************)
(* The comparator on numeric segments: two runs of digits are chosen, some *)
(* of them longer than an int can hold, and CompareVersions is applied to  *)
(* them in a build of either behaviour of atoi.                            *)
(***************************************************************************)
\* A run of digits from its decimal groups.
Run(groups) ==
    LET RECURSIVE Cat(_)
        Cat(i) == IF i > Len(groups) THEN <<>> ELSE groups[i] \o Cat(i + 1)
    IN  Cat(1)

\* Runs of digits that are version segments: small numbers with and
\* without leading zeros, the largest int and its successor, 2^32 and its
\* successor, and two date-stamped build numbers.
NumericSegments ==
    { <<"0">>, <<"1">>, <<"2">>, <<"0", "1">>, <<"0", "0", "2">>,
      <<"1", "0">>, <<"9">>,
      Run(<< <<"2", "1", "4", "7">>, <<"4", "8", "3">>, <<"6", "4", "7">> >>),
      Run(<< <<"0", "2", "1", "4", "7">>, <<"4", "8", "3">>,
             <<"6", "4", "7">> >>),
      Run(<< <<"2", "1", "4", "7">>, <<"4", "8", "3">>, <<"6", "4", "8">> >>),
      Run(<< <<"4", "2", "9", "4">>, <<"9", "6", "7">>, <<"2", "9", "6">> >>),
      Run(<< <<"4", "2", "9", "4">>, <<"9", "6", "7">>, <<"2", "9", "7">> >>),
      Run(<< <<"2", "0", "2", "4">>, <<"0", "1", "0", "1">>,
             <<"1", "2", "0", "0">> >>),
      Run(<< <<"2", "0", "2", "4">>, <<"0", "1", "0", "1">>,
             <<"1", "3", "0", "0">> >>) }

NumInit ==
    /\ now = 1
    /\ cfg = [ CheckForUpdates |-> "absent", LastCheckTime |-> <<>>,
               SkipThisVersion |-> <<>>, UpdateTempDir |-> <<>>,
               AppcastURL |-> "https", HasDSAPubKeyPem |-> FALSE,
               Interval |-> 1 ]
    /\ dirs = {}
    /\ nextDir = 1
    /\ started = {}
    /\ pc = [t \in Threads |-> "off"]
    /\ manual = [t \in Threads |-> FALSE]
    /\ appcast = [t \in Threads |-> EmptyAppcast]
    /\ sink = [t \in Threads |-> NoSink]
    /\ terminate = [t \in Threads |-> FALSE]
    /\ log = [t \in Threads |-> <<>>]
    /\ result = [t \in Threads |-> "none"]
    /\ lctBefore = [t \in Threads |-> <<>>]
    /\ prevFailed = [t \in Threads |-> FALSE]
    /\ calls = <<>>
    /\ vers \in NumericSegments \X NumericSegments
    /\ cmp = <<>>
    /\ overflow \in {"saturate", "wrap"}

NumSpec == NumInit /\ [][CmpNext]_vars

\* A run of digits without its leading zeros.
RECURSIVE StripZeros(_)
StripZeros(s) ==
    IF s /= <<>> /\ s[1] = "0" THEN StripZeros(Tail(s)) ELSE s

\* The sign of value(a) - value(b) for two runs of digits of any length:
\* without leading zeros the longer run is the larger number, and runs of
\* one length are ordered as their digits are.
ValueCompare(a, b) ==
    LET x == StripZeros(a)
        y == StripZeros(b)
    IN  IF Len(x) < Len(y) THEN -1
        ELSE IF Len(x) > Len(y) THEN 1
        ELSE StringCompare(x, y)

\* C21: for two runs of digits CompareVersions returns the sign of the
\* difference of their integer values, also when a value does not fit in a
\* 32-bit int, and 0 when they differ only in leading zeros.
C21_NumericByValue ==
    cmp /= <<>> =>
        \A i \in DOMAIN vers : \A j \in DOMAIN vers :
            cmp[i][j] = ValueCompare(vers[i], vers[j])

\* The periodic session failed before the write of LastCheckTime.
FailedBeforeWrite ==
    /\ result["Periodic"] \in Errors
    /\ ~Has("Periodic", "WriteLastCheckTime")

\* C22: a periodic session that failed before the write of LastCheckTime
\* failed for the feed (missing or insecure URL, fetch, parse) and left
\* LastCheckTime as it was, so that the check is still due; the wait that
\* follows takes one quantum (none when the terminate event is signaled)
\* and leaves the check due, and a pass of the loop that finds the check
\* due runs a session, with manual = false.
C22_FailedCheckStaysDue ==
    [][ /\ FailedBeforeWrite =>
              /\ result["Periodic"] \in {"ConfigurationError",
                                         "InsecureTransport", "NetworkError",
                                         "ParseError"}
              /\ pc["Periodic"] = "wait"
              /\ cfg.LastCheckTime = lctBefore["Periodic"]
              /\ CheckDue(cfg, now)
        /\ (FailedBeforeWrite /\ pc'["Periodic"] /= pc["Periodic"]) =>
              /\ pc'["Periodic"] = "loop"
              /\ now' <= now + Quantum
              /\ ~terminate["Periodic"] => now' = now + Quantum
              /\ cfg' = cfg
              /\ CheckDue(cfg', now')
        /\ (pc["Periodic"] = "loop" /\ CheckDue(cfg, now)
                /\ pc'["Periodic"] /= "loop") =>
              /\ pc'["Periodic"] = "acquire"
              /\ ~manual'["Periodic"]
      ]_vars

C22_Witness ==
    /\ prevFailed["Periodic"]
    /\ FailedBeforeWrite
    /\ result["Periodic"] = "NetworkError"
    /\ cfg.Interval = 2
    /\ cfg.LastCheckTime = <<>>
    /\ now = 3

====
